---- MODULE Spec2Model ----
(***************************************************************************)
(* A state-machine model of FileDialog (src/src/lib.rs): the navigation    *)
(* history (directory_stack + directory_offset), directory loading,        *)
(* selection and save-name validation, and the nested                      *)
(* CreateDirectoryDialog, over a small file system.                        *)
(*                                                                         *)
(* A path is the sequence of its components (the root is <<>>), so that    *)
(* path equality is the component-wise equality of std::path::Path.        *)
(* An Option is a sequence of length 0 (None) or 1 (Some).                 *)
(***************************************************************************)
EXTENDS Integers, Sequences, FiniteSets, TLC

\* The history stack is never grown beyond MaxStack entries.
MaxStack == 3
\* At most MaxCreated directories are created through the sub-dialog.
MaxCreated == 1
\* At most MaxSteps commands are issued after construction.
MaxSteps == 7

None == <<>>
Some(x) == <<x>>
Unwrap(o) == o[1]

(***************************************************************************)
(* The file system the dialog runs on.                                     *)
(*   /        a readable directory holding a, f, l, u                      *)
(*   /a       a readable directory, empty                                  *)
(*   /f       a regular file                                               *)
(*   /l       a symbolic link to /a                                        *)
(*   /u       a directory without any permission: it can be canonicalized  *)
(*            (that needs search permission on / only) but not listed      *)
(*   /m       does not exist                                               *)
(* plus the directories created through the sub-dialog (fs, in creation    *)
(* order).                                                                 *)
(***************************************************************************)
Root == <<>>
StaticDirs == {Root, <<"a">>, <<"u">>}
StaticFiles == {<<"f">>}
Unreadable == {<<"u">>}
LinkName == "l"
LinkTarget == <<"a">>

StaticNames(d) == IF d = Root THEN <<"a", "f", "l", "u">> ELSE <<>>

\* The directories a click in the left panel can ask for (user directories
\* and mount points): they come from the environment and need not exist.
Places == {<<"a">>, <<"l">>, <<"u">>, <<"m">>}
\* The directories FileDialog::initial_directory may have been given.
InitialDirs == {Root, <<"m">>, <<"l">>}
\* The texts typed into the file name field and into the sub-dialog.
SaveNames == {"", "f"}
CreateNames == {"", "n", "f"}

Modes == {"SelectFile", "SelectDirectory", "SaveFile"}

\* Path::parent
parent(p) == IF Len(p) = 0 THEN None ELSE Some(SubSeq(p, 1, Len(p) - 1))

\* PathBuf::push of one name: pushing "" only adds a trailing separator,
\* which Path equality ignores.
push(p, name) == IF name = "" THEN p ELSE Append(p, name)

\* Symbolic links resolved: /l/x... is /a/x...
resolve(p) ==
    IF Len(p) >= 1 /\ p[1] = LinkName
    THEN LinkTarget \o SubSeq(p, 2, Len(p))
    ELSE p

Range(s) == {s[i] : i \in 1..Len(s)}

\* Path::is_dir (follows links; nothing below /u can be stat'ed)
is_dir(fs, p) == resolve(p) \in StaticDirs \cup Range(fs)

\* Path::is_file
is_file(fs, p) == resolve(p) \in StaticFiles

\* Path::exists
exists(fs, p) == is_dir(fs, p) \/ is_file(fs, p)

\* fs::canonicalize: an error (None) for a path that does not exist
canonicalize(fs, p) == IF exists(fs, p) THEN Some(resolve(p)) ELSE None

\* The names in directory d (canonical), in enumeration order.
RECURSIVE CreatedNames(_, _)
CreatedNames(fs, d) ==
    IF fs = <<>> THEN <<>>
    ELSE LET c == Head(fs)
         IN  (IF SubSeq(c, 1, Len(c) - 1) = d THEN <<c[Len(c)]>> ELSE <<>>)
             \o CreatedNames(Tail(fs), d)

ChildNames(fs, d) == StaticNames(d) \o CreatedNames(fs, d)

\* The longest listing there can be.
MaxEntries == Len(StaticNames(Root)) + MaxCreated

\* fs::read_dir and DirEntry::path: the entries are the path as given
\* joined with each name; an error (None) for what is no directory or
\* cannot be read.
read_dir(fs, p) ==
    IF is_dir(fs, p) /\ resolve(p) \notin Unreadable
    THEN LET names == ChildNames(fs, resolve(p))
         IN  Some([i \in 1..Len(names) |-> Append(p, names[i])])
    ELSE None

\* fs::create_dir succeeds iff nothing has that path and the parent is a
\* directory that can be written.
create_dir_ok(fs, p) ==
    /\ Len(p) > 0
    /\ ~exists(fs, p)
    /\ is_dir(fs, SubSeq(p, 1, Len(p) - 1))
    /\ resolve(SubSeq(p, 1, Len(p) - 1)) \notin Unreadable

(***************************************************************************)
(* CreateDirectoryDialog                                                   *)
(***************************************************************************)
CreateDirectoryDialog_new ==
    [open |-> FALSE, init |-> FALSE, directory |-> None,
     input |-> "", error |-> None]

\* reset leaves error as it is
CreateDirectoryDialog_reset(c) ==
    [c EXCEPT !.open = FALSE, !.init = FALSE, !.directory = None, !.input = ""]

\* open without the request for the first-frame validation
CreateDirectoryDialog_open_noinit(c, directory) ==
    [CreateDirectoryDialog_reset(c) EXCEPT
        !.open = TRUE, !.directory = Some(directory)]

CreateDirectoryDialog_open(c, directory) ==
    [CreateDirectoryDialog_reset(c) EXCEPT
        !.open = TRUE, !.init = TRUE, !.directory = Some(directory)]

CreateDirectoryDialog_close(c) == CreateDirectoryDialog_reset(c)

\* validate_input rejecting the empty name only
CreateDirectoryDialog_validate_input_empty(c, fs) ==
    IF c.input = "" THEN Some("Name of the folder can not be empty")
    ELSE IF c.directory # None THEN None
         ELSE Some("No directory given")

CreateDirectoryDialog_validate_input(c, fs) ==
    IF c.input = "" THEN Some("Name of the folder can not be empty")
    ELSE IF c.directory # None
         THEN IF is_dir(fs, push(Unwrap(c.directory), c.input))
              THEN Some("A directory with the name already exists")
              ELSE None
         ELSE Some("No directory given")

\* update, the part run on the first frame after open
CreateDirectoryDialog_update_init(c, fs) ==
    IF c.open /\ c.init
    THEN [c EXCEPT !.error = CreateDirectoryDialog_validate_input(c, fs),
                   !.init = FALSE]
    ELSE c

\* create_directory closing the dialog when create_dir has failed, too
CreateDirectoryDialog_create_directory_discard(c, fs) ==
    IF c.directory # None
    THEN LET dir == push(Unwrap(c.directory), c.input)
         IN  IF create_dir_ok(fs, dir)
             THEN [dialog |-> CreateDirectoryDialog_close(c),
                   response |-> Some(dir), created |-> TRUE]
             ELSE [dialog |-> [CreateDirectoryDialog_close(c) EXCEPT
                                  !.error = Some("Error: create_dir failed")],
                   response |-> None, created |-> FALSE]
    ELSE [dialog |-> [c EXCEPT !.error = Some("No directory given")],
          response |-> None, created |-> FALSE]

\* create_directory leaving the dialog open after it has created the directory
CreateDirectoryDialog_create_directory_open(c, fs) ==
    IF c.directory # None
    THEN LET dir == push(Unwrap(c.directory), c.input)
         IN  IF create_dir_ok(fs, dir)
             THEN [dialog |-> c, response |-> Some(dir), created |-> TRUE]
             ELSE [dialog |-> [c EXCEPT !.error = Some("Error: create_dir failed")],
                   response |-> None, created |-> FALSE]
    ELSE [dialog |-> [c EXCEPT !.error = Some("No directory given")],
          response |-> None, created |-> FALSE]

\* create_directory: the dialog afterwards, the response and whether the
\* directory was created
CreateDirectoryDialog_create_directory(c, fs) ==
    IF c.directory # None
    THEN LET dir == push(Unwrap(c.directory), c.input)
         IN  IF create_dir_ok(fs, dir)
             THEN [dialog |-> CreateDirectoryDialog_close(c),
                   response |-> Some(dir), created |-> TRUE]
             ELSE [dialog |-> [c EXCEPT !.error = Some("Error: create_dir failed")],
                   response |-> None, created |-> FALSE]
    ELSE [dialog |-> [c EXCEPT !.error = Some("No directory given")],
          response |-> None, created |-> FALSE]

(***************************************************************************)
(* FileDialog: the functions, on a record d of the struct's fields.        *)
(***************************************************************************)
current_directory(d) ==
    IF d.directory_offset < Len(d.directory_stack)
    THEN Some(d.directory_stack[Len(d.directory_stack) - d.directory_offset])
    ELSE None

\* get_file_name: Path::file_name; every name of the model is valid text
get_file_name(file) == IF Len(file) = 0 THEN None ELSE Some(file[Len(file)])

\* is_selection_valid checking only that the selection has a name
is_selection_valid_named(d, fs) ==
    IF d.selected_item # None
    THEN CASE d.mode = "SaveFile" -> d.file_name_input_error = None
           [] OTHER -> get_file_name(Unwrap(d.selected_item)) # None
    ELSE d.mode = "SaveFile" /\ d.file_name_input_error = None

\* is_selection_valid without its last test: nothing selected is never valid
is_selection_valid_selected(d, fs) ==
    IF d.selected_item # None
    THEN LET selection == Unwrap(d.selected_item)
             file_name == get_file_name(selection)
         IN  CASE d.mode = "SelectDirectory" ->
                      is_dir(fs, selection) /\ file_name # None
               [] d.mode = "SelectFile" ->
                      is_file(fs, selection) /\ file_name # None
               [] OTHER -> d.file_name_input_error = None
    ELSE FALSE

is_selection_valid(d, fs) ==
    IF d.selected_item # None
    THEN LET selection == Unwrap(d.selected_item)
             file_name == get_file_name(selection)
         IN  CASE d.mode = "SelectDirectory" ->
                      is_dir(fs, selection) /\ file_name # None
               [] d.mode = "SelectFile" ->
                      is_file(fs, selection) /\ file_name # None
               [] OTHER -> d.file_name_input_error = None
    ELSE d.mode = "SaveFile" /\ d.file_name_input_error = None

\* validate_file_name_input rejecting whatever exists, directories too
validate_file_name_input_exists(d, fs) ==
    IF d.file_name_input = "" THEN Some("The file name cannot be empty")
    ELSE IF current_directory(d) # None
         THEN IF exists(fs, push(Unwrap(current_directory(d)), d.file_name_input))
              THEN Some("A file with this name already exists")
              ELSE None
         ELSE Some("Currently not in a directory")

validate_file_name_input(d, fs) ==
    IF d.file_name_input = "" THEN Some("The file name cannot be empty")
    ELSE IF current_directory(d) # None
         THEN LET full_path == push(Unwrap(current_directory(d)), d.file_name_input)
              IN  IF exists(fs, full_path) /\ is_file(fs, full_path)
                  THEN Some("A file with this name already exists")
                  ELSE None
         ELSE Some("Currently not in a directory")

\* select_item taking the name of whatever is selected, directories too
select_item_named(d, fs, path) ==
    LET d1 == [d EXCEPT !.selected_item = Some(path)]
    IN  IF d1.mode = "SaveFile" /\ get_file_name(path) # None
        THEN LET d2 == [d1 EXCEPT !.file_name_input = Unwrap(get_file_name(path))]
             IN  [d2 EXCEPT !.file_name_input_error = validate_file_name_input(d2, fs)]
        ELSE d1

select_item(d, fs, path) ==
    LET d1 == [d EXCEPT !.selected_item = Some(path)]
    IN  IF d1.mode = "SaveFile" /\ is_file(fs, path) /\ get_file_name(path) # None
        THEN LET d2 == [d1 EXCEPT !.file_name_input = Unwrap(get_file_name(path))]
             IN  [d2 EXCEPT !.file_name_input_error = validate_file_name_input(d2, fs)]
        ELSE d1

load_directory_content(d, fs, path) ==
    LET paths == read_dir(fs, path)
    IN  IF paths = None THEN d
        ELSE LET d1 == [d EXCEPT
                        !.create_directory_dialog = CreateDirectoryDialog_close(@),
                        !.directory_content = Unwrap(paths)]
             IN  IF d1.mode = "SaveFile"
                 THEN [d1 EXCEPT !.file_name_input_error =
                                     validate_file_name_input(d1, fs)]
                 ELSE d1

\* load_directory keeping the forward entries
drained_keep(d) == d.directory_stack

\* the entries load_directory leaves on the stack before it pushes
drained(d) ==
    IF d.directory_offset # 0 /\ Len(d.directory_stack) > d.directory_offset
    THEN SubSeq(d.directory_stack, 1, Len(d.directory_stack) - d.directory_offset)
    ELSE d.directory_stack

\* the early return of load_directory
is_current(d, path) ==
    current_directory(d) # None /\ Unwrap(current_directory(d)) = path

load_directory(d, fs, path) ==
    IF is_current(d, path) THEN d
    ELSE IF canonicalize(fs, path) = None
         THEN [d EXCEPT !.directory_stack = drained(d)]
         ELSE load_directory_content(
                  [d EXCEPT !.directory_stack =
                                Append(drained(d), Unwrap(canonicalize(fs, path))),
                            !.directory_offset = 0],
                  fs, path)

\* what load_directory(path) returns: "same" for the early return, "ok", or
\* the call that failed
load_directory_result(d, fs, path) ==
    IF is_current(d, path) THEN "same"
    ELSE IF canonicalize(fs, path) = None THEN "canonicalize_err"
    ELSE IF read_dir(fs, path) = None THEN "read_dir_err"
    ELSE "ok"

reload_directory(d, fs) ==
    IF current_directory(d) # None
    THEN load_directory_content(d, fs, Unwrap(current_directory(d)))
    ELSE d

load_parent(d, fs) ==
    IF current_directory(d) # None /\ parent(Unwrap(current_directory(d))) # None
    THEN load_directory(d, fs, Unwrap(parent(Unwrap(current_directory(d)))))
    ELSE d

\* load_previous_directory / load_next_directory move the offset and then
\* unwrap current_directory(): a panic when it is None
previous_moves(d) == d.directory_offset + 1 < Len(d.directory_stack)

\* load_previous_directory with ">" for ">=" in its boundary check
load_previous_directory_gt(d, fs) ==
    IF d.directory_offset + 1 > Len(d.directory_stack) THEN d
    ELSE LET d1 == [d EXCEPT !.directory_offset = @ + 1]
         IN  IF current_directory(d1) = None THEN d1
             ELSE load_directory_content(d1, fs, Unwrap(current_directory(d1)))

load_previous_directory(d, fs) ==
    IF ~previous_moves(d) THEN d
    ELSE LET d1 == [d EXCEPT !.directory_offset = @ + 1]
         IN  IF current_directory(d1) = None THEN d1
             ELSE load_directory_content(d1, fs, Unwrap(current_directory(d1)))

next_moves(d) == d.directory_offset # 0

\* load_next_directory going to the newest entry instead of one step
load_next_directory_newest(d, fs) ==
    IF ~next_moves(d) THEN d
    ELSE LET d1 == [d EXCEPT !.directory_offset = 0]
         IN  IF current_directory(d1) = None THEN d1
             ELSE load_directory_content(d1, fs, Unwrap(current_directory(d1)))

load_next_directory(d, fs) ==
    IF ~next_moves(d) THEN d
    ELSE LET d1 == [d EXCEPT !.directory_offset = @ - 1]
         IN  IF current_directory(d1) = None THEN d1
             ELSE load_directory_content(d1, fs, Unwrap(current_directory(d1)))

load_previous_directory_panics(d) ==
    previous_moves(d)
    /\ current_directory([d EXCEPT !.directory_offset = @ + 1]) = None

load_next_directory_panics(d) ==
    next_moves(d)
    /\ current_directory([d EXCEPT !.directory_offset = @ - 1]) = None

\* reset keeping the listing of the last session
reset_keeps_listing(d) ==
    [d EXCEPT !.state = [tag |-> "Closed", path |-> None],
              !.directory_stack = <<>>,
              !.directory_offset = 0,
              !.create_directory_dialog = CreateDirectoryDialog_new,
              !.selected_item = None,
              !.file_name_input = ""]

reset(d) ==
    [d EXCEPT !.state = [tag |-> "Closed", path |-> None],
              !.directory_stack = <<>>,
              !.directory_offset = 0,
              !.directory_content = <<>>,
              !.create_directory_dialog = CreateDirectoryDialog_new,
              !.selected_item = None,
              !.file_name_input = ""]

open(d, fs, m) ==
    load_directory([reset(d) EXCEPT !.mode = m,
                                    !.state = [tag |-> "Open", path |-> None]],
                   fs, d.initial_directory)

\* refresh going back to the newest entry of the history before it reloads
refresh_newest(d, fs) == reload_directory([d EXCEPT !.directory_offset = 0], fs)

refresh(d, fs) == reload_directory(d, fs)

finish(d, selected) == [d EXCEPT !.state = [tag |-> "Selected", path |-> Some(selected)]]

cancel(d) == [d EXCEPT !.state = [tag |-> "Cancelled", path |-> None]]

\* the enabled flags of the back and forward buttons (ui_update_top_panel)
back_enabled(d) == d.directory_offset + 1 < Len(d.directory_stack)
forward_enabled(d) == d.directory_offset # 0

(***************************************************************************)
(* The state: the fields of FileDialog, the directories created so far,    *)
(* whether the process has panicked, and a record of the last command.     *)
(***************************************************************************)
VARIABLES
    mode, state, initial_directory,
    directory_stack, directory_offset, directory_content,
    create_directory_dialog,
    selected_item, file_name_input, file_name_input_error,
    fs,          \* the directories created through the sub-dialog, in order
    panicked,    \* an unwrap() of None has ended the process
    lastCmd,     \* the last command: its name, its path or text, its outcome
    pre,         \* directory_stack and directory_offset before the last command
    prevOp,      \* the command before the last one, when it moved the history
    io_failed,   \* a directory load has returned an io::Error
    steps        \* the number of commands issued

dialogVars == <<mode, state, initial_directory, directory_stack, directory_offset,
                directory_content, create_directory_dialog, selected_item,
                file_name_input, file_name_input_error>>
vars == <<dialogVars, fs, panicked, lastCmd, pre, prevOp, io_failed, steps>>

\* the struct as a record
Self ==
    [mode |-> mode, state |-> state, initial_directory |-> initial_directory,
     directory_stack |-> directory_stack, directory_offset |-> directory_offset,
     directory_content |-> directory_content,
     create_directory_dialog |-> create_directory_dialog,
     selected_item |-> selected_item, file_name_input |-> file_name_input,
     file_name_input_error |-> file_name_input_error]

Set(d) ==
    /\ mode' = d.mode
    /\ state' = d.state
    /\ initial_directory' = d.initial_directory
    /\ directory_stack' = d.directory_stack
    /\ directory_offset' = d.directory_offset
    /\ directory_content' = d.directory_content
    /\ create_directory_dialog' = d.create_directory_dialog
    /\ selected_item' = d.selected_item
    /\ file_name_input' = d.file_name_input
    /\ file_name_input_error' = d.file_name_input_error

Cmd(op, path, text, res) == [op |-> op, path |-> path, text |-> text, res |-> res]

\* the struct after the step
NextSelf ==
    [mode |-> mode', state |-> state', initial_directory |-> initial_directory',
     directory_stack |-> directory_stack', directory_offset |-> directory_offset',
     directory_content |-> directory_content',
     create_directory_dialog |-> create_directory_dialog',
     selected_item |-> selected_item', file_name_input |-> file_name_input',
     file_name_input_error |-> file_name_input_error']

\* the command ran a directory load that returned an io::Error: canonicalize
\* or read_dir in load_directory, read_dir in the reload of back, forward
\* and refresh
LoadFailed(cmd) ==
    \/ cmd.res \in {"canonicalize_err", "read_dir_err"}
    \/ /\ cmd.op \in {"back", "forward"}
       /\ cmd.res = "moved"
       /\ current_directory(NextSelf) # None
       /\ read_dir(fs, Unwrap(current_directory(NextSelf))) = None
    \/ /\ cmd.op = "refresh"
       /\ current_directory(Self) # None
       /\ read_dir(fs, Unwrap(current_directory(Self))) = None

Record(cmd) ==
    /\ lastCmd' = cmd
    /\ pre' = [directory_stack |-> directory_stack,
               directory_offset |-> directory_offset]
    /\ prevOp' = IF (lastCmd.op \in {"back", "forward"} /\ lastCmd.res = "moved")
                    \/ (lastCmd.op \in {"navigate", "double_click"}
                        /\ lastCmd.res = "ok")
                 THEN lastCmd.op
                 ELSE "other"
    /\ io_failed' = (io_failed \/ LoadFailed(cmd))
    /\ steps' = steps + 1

\* update() draws the window, and takes a click, only while the state is Open
Alive == ~panicked /\ steps < MaxSteps
\* update() drawing the window whatever the state
Shown_always == Alive

Shown == Alive /\ state.tag = "Open"

\* FileDialog::new().initial_directory(directory) as a record
FileDialog_new(directory) ==
    [mode |-> "SelectDirectory",
     state |-> [tag |-> "Closed", path |-> None],
     initial_directory |-> directory,
     directory_stack |-> <<>>,
     directory_offset |-> 0,
     directory_content |-> <<>>,
     create_directory_dialog |-> CreateDirectoryDialog_new,
     selected_item |-> None,
     file_name_input |-> "",
     file_name_input_error |-> None]

\* FileDialog::new and the builder initial_directory
Init ==
    /\ mode = "SelectDirectory"
    /\ state = [tag |-> "Closed", path |-> None]
    /\ initial_directory \in InitialDirs
    /\ directory_stack = <<>>
    /\ directory_offset = 0
    /\ directory_content = <<>>
    /\ create_directory_dialog = CreateDirectoryDialog_new
    /\ selected_item = None
    /\ file_name_input = ""
    /\ file_name_input_error = None
    /\ fs = <<>>
    /\ panicked = FALSE
    /\ lastCmd = Cmd("new", None, "", "")
    /\ pre = [directory_stack |-> <<>>, directory_offset |-> 0]
    /\ prevOp = "other"
    /\ io_failed = FALSE
    /\ steps = 0

\* select_directory / select_file / save_file
Open(m) ==
    /\ Alive
    /\ Set(open(Self, fs, m))
    /\ Record(Cmd("open", Some(initial_directory), m,
                  load_directory_result(reset(Self), fs, initial_directory)))
    /\ UNCHANGED <<fs, panicked>>

\* update() while the dialog is not open: nothing is drawn
UpdateClosed ==
    /\ Alive
    /\ state.tag # "Open"
    /\ Record(Cmd("update", None, "", ""))
    /\ UNCHANGED <<dialogVars, fs, panicked>>

\* a navigation command: one call of load_directory(path)
LoadDirectory(op, path) ==
    /\ Shown
    /\ Len(load_directory(Self, fs, path).directory_stack) <= MaxStack
    /\ Set(load_directory(Self, fs, path))
    /\ Record(Cmd(op, Some(path), "", load_directory_result(Self, fs, path)))
    /\ UNCHANGED <<fs, panicked>>

\* a click on a user directory or on a device in the left panel
Navigate(p) ==
    /\ p \in Places
    /\ LoadDirectory("navigate", p)

\* the button "up": load_parent
LoadParent ==
    /\ current_directory(Self) # None
    /\ parent(Unwrap(current_directory(Self))) # None
    /\ LoadDirectory("navigate", Unwrap(parent(Unwrap(current_directory(Self)))))

\* a click on the i-th segment of the current path: the path up to it
ClickSegment(i) ==
    /\ current_directory(Self) # None
    /\ i \in 1..(Len(Unwrap(current_directory(Self))) + 1)
    /\ LoadDirectory("navigate", SubSeq(Unwrap(current_directory(Self)), 1, i - 1))

\* the button "back"
Back ==
    /\ Shown
    /\ Set(load_previous_directory(Self, fs))
    /\ panicked' = load_previous_directory_panics(Self)
    /\ Record(Cmd("back", None, "",
                  IF previous_moves(Self) THEN "moved" ELSE "unavailable"))
    /\ UNCHANGED fs

\* the button "forward"
Forward ==
    /\ Shown
    /\ Set(load_next_directory(Self, fs))
    /\ panicked' = load_next_directory_panics(Self)
    /\ Record(Cmd("forward", None, "",
                  IF next_moves(Self) THEN "moved" ELSE "unavailable"))
    /\ UNCHANGED fs

\* the button "reload"
Refresh ==
    /\ Shown
    /\ Set(refresh(Self, fs))
    /\ Record(Cmd("refresh", None, "", ""))
    /\ UNCHANGED <<fs, panicked>>

\* a click on the i-th entry of the listing
Select(i) ==
    /\ Shown
    /\ i \in 1..Len(directory_content)
    /\ Set(select_item(Self, fs, directory_content[i]))
    /\ Record(Cmd("select", Some(directory_content[i]), "", ""))
    /\ UNCHANGED <<fs, panicked>>

\* what a double click on path does: the click selects it; a directory is
\* then loaded, and the listing taken for the loop is dropped by the early
\* return; anything else is selected and, when valid, finishes the dialog
double_click(d, f, path) ==
    LET d1 == select_item(d, f, path)
    IN  IF is_dir(f, path)
        THEN load_directory([d1 EXCEPT !.directory_content = <<>>], f, path)
        ELSE LET d2 == select_item(d1, f, path)
             IN  IF is_selection_valid(d2, f) /\ d2.selected_item # None
                 THEN finish(d2, Unwrap(d2.selected_item))
                 ELSE d2

DoubleClick(i) ==
    /\ Shown
    /\ i \in 1..Len(directory_content)
    /\ Len(double_click(Self, fs, directory_content[i]).directory_stack) <= MaxStack
    /\ Set(double_click(Self, fs, directory_content[i]))
    /\ Record(Cmd("double_click", Some(directory_content[i]), "",
                  IF is_dir(fs, directory_content[i])
                  THEN load_directory_result(Self, fs, directory_content[i])
                  ELSE IF double_click(Self, fs, directory_content[i]).state.tag
                          = "Selected"
                       THEN "finished" ELSE "rejected"))
    /\ UNCHANGED <<fs, panicked>>

\* an edit of the file name field (drawn in SaveFile mode only)
SetSaveName(text) ==
    /\ Shown
    /\ mode = "SaveFile"
    /\ text # file_name_input
    /\ LET d1 == [Self EXCEPT !.file_name_input = text]
       IN  Set([d1 EXCEPT !.file_name_input_error = validate_file_name_input(d1, fs)])
    /\ Record(Cmd("set_save_name", None, text, ""))
    /\ UNCHANGED <<fs, panicked>>

\* the button "Open" / "Save", which is enabled by is_selection_valid()
confirm(d, f) ==
    IF ~is_selection_valid(d, f) THEN d
    ELSE IF d.mode = "SaveFile"
         THEN IF current_directory(d) # None
              THEN finish(d, push(Unwrap(current_directory(d)), d.file_name_input))
              ELSE d
         ELSE IF d.selected_item # None
              THEN finish(d, Unwrap(d.selected_item))
              ELSE d

Confirm ==
    /\ Shown
    /\ Set(confirm(Self, fs))
    /\ Record(Cmd("confirm", None, "",
                  IF ~is_selection_valid(Self, fs) THEN "rejected"
                  ELSE IF confirm(Self, fs).state.tag = "Selected"
                       THEN "finished" ELSE "ignored"))
    /\ UNCHANGED <<fs, panicked>>

\* the button "Abort", or the window being closed
Cancel ==
    /\ Shown
    /\ Set(cancel(Self))
    /\ Record(Cmd("cancel", None, "", ""))
    /\ UNCHANGED <<fs, panicked>>

\* the button "+", enabled while the sub-dialog is closed; the sub-dialog is
\* drawn for the first time, and validates its input, in the same frame
OpenCreateDirectory ==
    /\ Shown
    /\ ~create_directory_dialog.open
    /\ current_directory(Self) # None
    /\ Set([Self EXCEPT !.create_directory_dialog =
                CreateDirectoryDialog_update_init(
                    CreateDirectoryDialog_open(@, Unwrap(current_directory(Self))),
                    fs)])
    /\ Record(Cmd("open_create_directory", current_directory(Self), "", ""))
    /\ UNCHANGED <<fs, panicked>>

\* an edit of the sub-dialog's text
SetCreateDirectoryName(text) ==
    /\ Shown
    /\ create_directory_dialog.open
    /\ text # create_directory_dialog.input
    /\ LET c == [create_directory_dialog EXCEPT !.input = text]
       IN  Set([Self EXCEPT !.create_directory_dialog =
                   [c EXCEPT !.error = CreateDirectoryDialog_validate_input(c, fs)]])
    /\ Record(Cmd("set_create_directory_name", None, text, ""))
    /\ UNCHANGED <<fs, panicked>>

\* the sub-dialog's button "ok", enabled while it has no error; the new
\* directory is pushed to the listing and selected
CommitCreateDirectory ==
    /\ Shown
    /\ create_directory_dialog.open
    /\ create_directory_dialog.error = None
    /\ LET r == CreateDirectoryDialog_create_directory(create_directory_dialog, fs)
           f == IF r.created THEN Append(fs, Unwrap(r.response)) ELSE fs
           d1 == [Self EXCEPT !.create_directory_dialog = r.dialog]
       IN  /\ Len(f) <= MaxCreated
           /\ fs' = f
           /\ Set(IF r.response # None
                  THEN select_item(
                           [d1 EXCEPT !.directory_content =
                                          Append(@, Unwrap(r.response))],
                           f, Unwrap(r.response))
                  ELSE d1)
           /\ Record(Cmd("commit_create_directory", r.response,
                         create_directory_dialog.input,
                         IF r.created THEN "created" ELSE "failed"))
    /\ UNCHANGED panicked

\* the sub-dialog's button "cancel"
CancelCreateDirectory ==
    /\ Shown
    /\ create_directory_dialog.open
    /\ Set([Self EXCEPT !.create_directory_dialog = CreateDirectoryDialog_close(@)])
    /\ Record(Cmd("cancel_create_directory", None, "", ""))
    /\ UNCHANGED <<fs, panicked>>

(***************************************************************************)
(* The claims.                                                             *)
(***************************************************************************)
NavigationOps == {"navigate", "double_click"}
SelectModes == {"SelectFile", "SelectDirectory"}

\* C1: whenever the history stack is non-empty, 0 <= offset < stack.length,
\* so that the current directory is defined.
C1_OffsetInRange ==
    directory_stack # <<>> =>
        /\ 0 <= directory_offset
        /\ directory_offset < Len(directory_stack)
        /\ current_directory(Self) # None

\* C2: a navigate(p) that returns Ok, with p not the current directory and
\* offset = k > 0 before it, leaves the old stack without its last k entries
\* followed by the canonical form of p, with offset 0 and forward unavailable.
C2_NavigateDropsForward ==
    (lastCmd.op \in NavigationOps /\ lastCmd.res = "ok" /\ pre.directory_offset > 0) =>
        /\ directory_stack =
               Append(SubSeq(pre.directory_stack, 1,
                             Len(pre.directory_stack) - pre.directory_offset),
                      Unwrap(canonicalize(fs, Unwrap(lastCmd.path))))
        /\ directory_offset = 0
        /\ ~forward_enabled(Self)

\* C3, as claimed: from every state, back() followed at once by forward()
\* leaves the current directory what it was before the back().
C3_BackForwardAlways ==
    [][(lastCmd.op = "back" /\ lastCmd'.op = "forward") =>
           current_directory(NextSelf) = current_directory(pre)]_vars

\* C3, amended: from every state in which back is available
\* (offset + 1 < stack.length), back() followed at once by forward() leaves
\* the current directory what it was before the back().
C3_BackForwardRestores ==
    [][(lastCmd.op = "back" /\ back_enabled(pre) /\ lastCmd'.op = "forward") =>
           /\ current_directory(NextSelf) = current_directory(pre)
           /\ current_directory(NextSelf) # None]_vars

C3_Witness ==
    /\ lastCmd.op = "forward"
    /\ lastCmd.res = "moved"
    /\ prevOp = "back"
    /\ Len(directory_stack) >= 2
    /\ current_directory(Self) # None

\* C4: a navigation to p with p equal to the current directory changes
\* nothing: the stack, the offset and the listing are as before and nothing
\* is reloaded; for a click in the left panel, on the parent button or on a
\* path segment, and for a double click on a listed directory alike.
C4_NavigateToCurrentIsNoOp ==
    [][(lastCmd'.op \in {"navigate", "double_click"}
        /\ is_dir(fs, Unwrap(lastCmd'.path))
        /\ lastCmd'.path = current_directory(Self)) =>
           UNCHANGED <<directory_stack, directory_offset, directory_content>>]_vars

\* C5: back() with offset + 1 >= stack.length and forward() with offset = 0
\* change nothing; otherwise back() adds 1 to the offset and forward() takes
\* 1 from it; and the buttons are enabled exactly when the command moves.
C5_BackForwardBoundaries ==
    [][/\ (lastCmd'.op = "back" /\ directory_offset + 1 >= Len(directory_stack)) =>
              /\ UNCHANGED <<dialogVars, fs, panicked>>
              /\ ~back_enabled(Self)
       /\ (lastCmd'.op = "forward" /\ directory_offset = 0) =>
              /\ UNCHANGED <<dialogVars, fs, panicked>>
              /\ ~forward_enabled(Self)
       /\ (lastCmd'.op = "back" /\ directory_offset + 1 < Len(directory_stack)) =>
              /\ directory_offset' = directory_offset + 1
              /\ directory_stack' = directory_stack
              /\ back_enabled(Self)
       /\ (lastCmd'.op = "forward" /\ directory_offset > 0) =>
              /\ directory_offset' = directory_offset - 1
              /\ directory_stack' = directory_stack
              /\ forward_enabled(Self)]_vars

C5_Witness ==
    /\ lastCmd.op = "back"
    /\ lastCmd.res = "unavailable"
    /\ prevOp = "back"
    /\ directory_offset >= 1
    /\ directory_offset + 1 = Len(directory_stack)
    /\ directory_offset = pre.directory_offset

\* C6: after a navigate(p) that changes the current directory, selected_item
\* is none.
C6_NavigateClearsSelection ==
    (lastCmd.op = "navigate" /\ lastCmd.res = "ok"
     /\ current_directory(Self) # current_directory(pre)) =>
        selected_item = None

\* C7: a navigate, back or forward that changes the current directory closes
\* the sub-dialog, and the sub-dialog is never open with a parent other than
\* the current directory.
C7_SubDialogFollowsDirectory ==
    /\ (lastCmd.op \in NavigationOps \cup {"back", "forward"}
        /\ current_directory(Self) # current_directory(pre)) =>
           ~create_directory_dialog.open
    /\ create_directory_dialog.open =>
           create_directory_dialog.directory = current_directory(Self)

\* C8: in SaveFile mode, in every Open state, the stored save-name error is
\* validate_save_name(save-name text, current directory).
C8_SaveNameErrorIsCurrent ==
    (mode = "SaveFile" /\ state.tag = "Open") =>
        file_name_input_error = validate_file_name_input(Self, fs)

\* C9: in SelectFile and SelectDirectory mode the state becomes Selected(p)
\* only by a confirm (the button or a double click) with is_selection_valid()
\* true, and p is selected_item, a regular file in SelectFile mode and a
\* directory in SelectDirectory mode.
C9_SelectedIsValidSelection ==
    [][(mode' \in SelectModes /\ state'.tag = "Selected") =>
           /\ state'.path = selected_item'
           /\ selected_item' # None
           /\ mode' = "SelectFile" => is_file(fs', Unwrap(state'.path))
           /\ mode' = "SelectDirectory" => is_dir(fs', Unwrap(state'.path))
           /\ state.tag # "Selected" =>
                  /\ lastCmd'.op \in {"confirm", "double_click"}
                  /\ lastCmd'.res = "finished"
                  /\ state.tag = "Open"
                  /\ is_selection_valid(NextSelf, fs')
                  /\ lastCmd'.op = "confirm" => is_selection_valid(Self, fs)]_vars

C9_Witness ==
    /\ mode = "SelectDirectory"
    /\ state.tag = "Selected"
    /\ lastCmd.op = "confirm"
    /\ state.path = selected_item
    /\ is_dir(fs, Unwrap(state.path))

\* C10: in SaveFile mode, whenever is_selection_valid() is true the current
\* directory is defined, and confirm() then makes the state
\* Selected(current_directory / save_name_input); confirm() is rejected
\* while there is a save-name error.
C10_SaveConfirm ==
    /\ (mode = "SaveFile" /\ state.tag = "Open" /\ is_selection_valid(Self, fs)) =>
           current_directory(Self) # None
    /\ (mode = "SaveFile" /\ lastCmd.op = "confirm" /\ lastCmd.res # "rejected") =>
           /\ state.tag = "Selected"
           /\ current_directory(Self) # None
           /\ state.path =
                  Some(push(Unwrap(current_directory(Self)), file_name_input))
    /\ (mode = "SaveFile" /\ lastCmd.op = "confirm" /\ file_name_input_error # None) =>
           (lastCmd.res = "rejected" /\ state.tag = "Open")

(***************************************************************************)
(* The pure functions on their own: is_selection_valid and                 *)
(* validate_file_name_input read mode, selected_item, file_name_input,     *)
(* file_name_input_error, the history and the file system. SpecFunctions   *)
(* draws these from small sets and applies each function.                  *)
(***************************************************************************)
SelectionInputs ==
    {None} \cup {Some(p) : p \in {Root, <<"a">>, <<"f">>, <<"l">>, <<"u">>, <<"m">>}}
NameInputs == {"", "f", "a", "m"}
ErrorInputs == {None, Some("A file with this name already exists")}
StackInputs == {<<>>, <<Root>>, <<Root, <<"a">>>>}
FsInputs == {<<>>, << <<"m">> >>}

\* an Option<String> as text
ErrorText(e) == IF e = None THEN "none" ELSE Unwrap(e)

InitFunctions ==
    /\ mode \in Modes
    /\ state = [tag |-> "Open", path |-> None]
    /\ initial_directory = Root
    /\ directory_stack \in StackInputs
    /\ directory_offset \in 0..1
    /\ directory_content = <<>>
    /\ create_directory_dialog = CreateDirectoryDialog_new
    /\ selected_item \in SelectionInputs
    /\ file_name_input \in NameInputs
    /\ file_name_input_error \in ErrorInputs
    /\ fs \in FsInputs
    /\ panicked = FALSE
    /\ lastCmd = Cmd("new", None, "", "")
    /\ pre = [directory_stack |-> directory_stack,
              directory_offset |-> directory_offset]
    /\ prevOp = "other"
    /\ io_failed = FALSE
    /\ steps = 0

EvalIsSelectionValid ==
    /\ lastCmd' = Cmd("is_selection_valid", None, "",
                      IF is_selection_valid(Self, fs) THEN "true" ELSE "false")
    /\ UNCHANGED <<dialogVars, fs, panicked, pre, prevOp, io_failed, steps>>

EvalValidateFileNameInput ==
    /\ lastCmd' = Cmd("validate_file_name_input", None, file_name_input,
                      ErrorText(validate_file_name_input(Self, fs)))
    /\ UNCHANGED <<dialogVars, fs, panicked, pre, prevOp, io_failed, steps>>

NextFunctions == EvalIsSelectionValid \/ EvalValidateFileNameInput

SpecFunctions == InitFunctions /\ [][NextFunctions]_vars

\* C11: is_selection_valid is, in SelectDirectory mode, true iff
\* selected_item is set, is an existing directory and has a display name; in
\* SelectFile mode the same with a regular file; in SaveFile mode true iff
\* there is no save-name error, selected or not. It is false whenever
\* nothing is selected, except in SaveFile mode without a name error.
C11_IsSelectionValid ==
    lastCmd.op = "is_selection_valid" =>
        /\ mode = "SelectDirectory" =>
               (lastCmd.res = "true" <=>
                    /\ selected_item # None
                    /\ resolve(Unwrap(selected_item)) \in StaticDirs \cup Range(fs)
                    /\ Len(Unwrap(selected_item)) > 0)
        /\ mode = "SelectFile" =>
               (lastCmd.res = "true" <=>
                    /\ selected_item # None
                    /\ resolve(Unwrap(selected_item)) \in StaticFiles
                    /\ Len(Unwrap(selected_item)) > 0)
        /\ mode = "SaveFile" =>
               (lastCmd.res = "true" <=> file_name_input_error = None)
        /\ (selected_item = None
            /\ ~(mode = "SaveFile" /\ file_name_input_error = None)) =>
               lastCmd.res = "false"

C11_Witness ==
    /\ lastCmd.op = "is_selection_valid"
    /\ mode = "SaveFile"
    /\ selected_item = None
    /\ file_name_input_error = None
    /\ lastCmd.res = "true"

\* C12: validate_save_name gives an error for the empty name whatever the
\* directory; for a non-empty name and a defined current directory, an
\* error iff current_directory/name is a regular file (a directory of that
\* name is accepted); for a non-empty name and no current directory, the
\* error "Currently not in a directory".
C12_ValidateSaveName ==
    lastCmd.op = "validate_file_name_input" =>
        /\ file_name_input = "" => lastCmd.res # "none"
        /\ (file_name_input # "" /\ current_directory(Self) # None) =>
               /\ (lastCmd.res # "none" <=>
                       resolve(Append(Unwrap(current_directory(Self)),
                                      file_name_input)) \in StaticFiles)
               /\ (resolve(Append(Unwrap(current_directory(Self)),
                                  file_name_input)) \in StaticDirs \cup Range(fs)) =>
                      lastCmd.res = "none"
        /\ (file_name_input # "" /\ current_directory(Self) = None) =>
               lastCmd.res = "Currently not in a directory"

C12_Witness ==
    /\ lastCmd.op = "validate_file_name_input"
    /\ file_name_input = "a"
    /\ current_directory(Self) = Some(Root)
    /\ lastCmd.res = "none"

\* C13: while the state is Closed, Selected or Cancelled, no command other
\* than open changes the state, the history, the listing, the selection,
\* the save name or the sub-dialog; open always makes the state Open.
C13_TerminalUntilOpen ==
    [][/\ (state.tag # "Open" /\ lastCmd'.op # "open") =>
              UNCHANGED <<dialogVars, fs, panicked>>
       /\ lastCmd'.op = "open" =>
              /\ state'.tag = "Open"
              /\ mode' = lastCmd'.text]_vars

C13_Witness ==
    /\ state.tag \in {"Selected", "Cancelled"}
    /\ lastCmd.op = "update"
    /\ pre.directory_stack # <<>>
    /\ selected_item # None

\* C14: the state right after open(mode) (state, mode, stack, offset,
\* listing, selection, save name, save-name error, sub-dialog) depends on
\* the mode, the configured initial directory and the file system only: it
\* is the state a dialog that was never used has after the same open.
C14_OpenResetsSession ==
    lastCmd.op = "open" =>
        Self = open(FileDialog_new(initial_directory), fs, lastCmd.text)

\* C15: after open(mode), if the load of the initial directory failed, the
\* state is Open all the same and the listing is empty; if it succeeded,
\* the history is exactly the canonical initial directory, with offset 0.
C15_OpenAndInitialLoad ==
    lastCmd.op = "open" =>
        /\ state.tag = "Open"
        /\ lastCmd.res # "ok" => directory_content = <<>>
        /\ lastCmd.res = "ok" =>
               /\ directory_stack = <<resolve(initial_directory)>>
               /\ directory_offset = 0

C15_Witness ==
    /\ lastCmd.op = "open"
    /\ lastCmd.res = "canonicalize_err"
    /\ pre.directory_stack # <<>>
    /\ state.tag = "Open"
    /\ directory_content = <<>>

\* the immediate children of directory dir, as paths
Children(f, dir) ==
    {Append(dir, ChildNames(f, dir)[i]) : i \in 1..Len(ChildNames(f, dir))}

\* C16: in every Open state reached without a failed directory load, the
\* listing is exactly the set of immediate children of the current
\* directory, directories created through the sub-dialog included, whether
\* the state was reached by navigate, back, forward or refresh.
C16_ListingIsChildren ==
    (state.tag = "Open" /\ ~io_failed /\ ~panicked) =>
        /\ current_directory(Self) # None
        /\ Range(directory_content) = Children(fs, Unwrap(current_directory(Self)))

\* C17: within one session an open sub-dialog is closed only by a commit
\* that created the directory, by its own cancel, or by a command of the
\* parent that changed the current directory; refresh, select,
\* set_save_name and a failed commit leave it open with its input.
C17_SubDialogClosedOnlyBy ==
    [][(create_directory_dialog.open /\ lastCmd'.op # "open"
        /\ state'.tag = "Open") =>
           /\ ~create_directory_dialog'.open =>
                  \/ lastCmd'.op = "commit_create_directory"
                         /\ lastCmd'.res = "created"
                  \/ lastCmd'.op = "cancel_create_directory"
                  \/ lastCmd'.op \in NavigationOps \cup {"back", "forward"}
                         /\ current_directory(NextSelf) # current_directory(Self)
           /\ (\/ lastCmd'.op \in {"refresh", "select", "set_save_name"}
               \/ lastCmd'.op = "commit_create_directory"
                      /\ lastCmd'.res = "failed") =>
                  /\ create_directory_dialog'.open
                  /\ create_directory_dialog'.input = create_directory_dialog.input]_vars

\* C18: opening the sub-dialog always gives the input "" and the error
\* already computed for it (the empty-name error), whatever input and error
\* an earlier use left; so the commit, enabled only without an error, stays
\* unavailable from the opening until a non-empty name that is no existing
\* directory has been entered.
C18_OpensEmptyWithError ==
    [][/\ lastCmd'.op = "open_create_directory" =>
              /\ create_directory_dialog'.open
              /\ create_directory_dialog'.input = ""
              /\ create_directory_dialog'.error
                     = Some("Name of the folder can not be empty")
              /\ create_directory_dialog'.directory = current_directory(Self)
       /\ (create_directory_dialog.open /\ create_directory_dialog'.open
           /\ create_directory_dialog.error # None
           /\ create_directory_dialog'.error = None) =>
              /\ lastCmd'.op = "set_create_directory_name"
              /\ lastCmd'.text # ""
              /\ create_directory_dialog'.input = lastCmd'.text
              /\ ~is_dir(fs, push(Unwrap(create_directory_dialog.directory),
                                  lastCmd'.text))]_vars

C18_Witness ==
    /\ lastCmd.op = "open_create_directory"
    /\ fs # <<>>
    /\ steps = 5
    /\ create_directory_dialog.open
    /\ create_directory_dialog.error # None

\* C19: a directory is created, or its creation tried, only by a commit
\* issued while the sub-dialog is open without an error, and then the input
\* is non-empty and parent/input is no existing directory; and while the
\* sub-dialog is open its error is none iff the input is non-empty and
\* parent/input is no existing directory, except while the error is the one
\* a failed commit has left.
C19_CreationGatedByValidation ==
    [][/\ fs' # fs => lastCmd'.op = "commit_create_directory"
       /\ lastCmd'.op = "commit_create_directory" =>
              /\ create_directory_dialog.open
              /\ create_directory_dialog.error = None
              /\ create_directory_dialog.input # ""
              /\ create_directory_dialog.directory # None
              /\ ~(Append(Unwrap(create_directory_dialog.directory),
                          create_directory_dialog.input)
                       \in StaticDirs \cup Range(fs))
       /\ (create_directory_dialog'.open
           /\ ~(lastCmd'.op = "commit_create_directory"
                /\ lastCmd'.res = "failed")
           /\ create_directory_dialog'.error # Some("Error: create_dir failed")) =>
              (create_directory_dialog'.error = None <=>
                   /\ create_directory_dialog'.input # ""
                   /\ create_directory_dialog'.directory # None
                   /\ ~is_dir(fs', push(Unwrap(create_directory_dialog'.directory),
                                        create_directory_dialog'.input)))]_vars

C19_Witness ==
    /\ lastCmd.op = "commit_create_directory"
    /\ lastCmd.res = "failed"
    /\ lastCmd.text = "f"
    /\ create_directory_dialog.open
    /\ create_directory_dialog.error # None
    /\ fs = <<>>

\* C20: a commit that creates the directory n in the sub-dialog's parent P
\* closes the sub-dialog, appends P/n to the listing and makes P/n the
\* selected item; the history stack and the offset stay as they were.
C20_CommitInsertsAndSelects ==
    [][(lastCmd'.op = "commit_create_directory" /\ lastCmd'.res = "created") =>
           /\ ~create_directory_dialog'.open
           /\ create_directory_dialog'.input = ""
           /\ fs' = Append(fs, Append(Unwrap(create_directory_dialog.directory),
                                      create_directory_dialog.input))
           /\ directory_content'
                  = Append(directory_content,
                           Append(Unwrap(create_directory_dialog.directory),
                                  create_directory_dialog.input))
           /\ selected_item'
                  = Some(Append(Unwrap(create_directory_dialog.directory),
                                create_directory_dialog.input))
           /\ UNCHANGED <<directory_stack, directory_offset, state, mode>>]_vars

C20_Witness ==
    /\ lastCmd.op = "commit_create_directory"
    /\ lastCmd.res = "created"
    /\ lastCmd.path = Some(<<"a", "n">>)
    /\ directory_stack = <<Root, <<"a">>>>
    /\ directory_offset = 0
    /\ fs = <<<<"a", "n">>>>
    /\ selected_item = Some(<<"a", "n">>)
    /\ directory_content = <<<<"a", "n">>>>
    /\ ~create_directory_dialog.open

\* C21: a commit whose create_dir fails leaves the sub-dialog open with the
\* same parent and the same input, makes the creation error its error (so
\* the commit stays disabled until the text is edited), and changes neither
\* the listing, the selection, the state nor the file system.
C21_FailedCommitKeepsDialog ==
    [][/\ (lastCmd'.op = "commit_create_directory" /\ lastCmd'.res = "failed") =>
              /\ create_directory_dialog'.open
              /\ create_directory_dialog'.directory = create_directory_dialog.directory
              /\ create_directory_dialog'.input = create_directory_dialog.input
              /\ create_directory_dialog'.error = Some("Error: create_dir failed")
              /\ UNCHANGED <<directory_content, selected_item, state, mode,
                             directory_stack, directory_offset,
                             file_name_input, file_name_input_error, fs>>
       /\ (create_directory_dialog.open /\ create_directory_dialog'.open
           /\ create_directory_dialog.error = Some("Error: create_dir failed")
           /\ create_directory_dialog'.error # create_directory_dialog.error) =>
              /\ lastCmd'.op = "set_create_directory_name"
              /\ create_directory_dialog'.input # create_directory_dialog.input]_vars

C21_Witness ==
    /\ lastCmd.op = "commit_create_directory"
    /\ lastCmd.res = "failed"
    /\ create_directory_dialog.open
    /\ create_directory_dialog.input = "f"
    /\ create_directory_dialog.directory = Some(Root)
    /\ create_directory_dialog.error = Some("Error: create_dir failed")
    /\ selected_item # None
    /\ directory_content # <<>>

\* C22: select(path) makes path the selected item; in SaveFile mode with
\* path an existing regular file it also makes the file's name the save
\* name and recomputes the save-name error from that name and the current
\* directory; in every other case save name and error are unchanged.
C22_Select ==
    [][lastCmd'.op = "select" =>
           /\ selected_item' = lastCmd'.path
           /\ UNCHANGED <<state, mode, directory_stack, directory_offset,
                          directory_content, create_directory_dialog, fs>>
           /\ IF mode = "SaveFile"
                 /\ resolve(Unwrap(lastCmd'.path)) \in StaticFiles
              THEN /\ file_name_input'
                          = Unwrap(lastCmd'.path)[Len(Unwrap(lastCmd'.path))]
                   /\ file_name_input_error'
                          = IF current_directory(Self) = None
                            THEN Some("Currently not in a directory")
                            ELSE IF resolve(Append(Unwrap(current_directory(Self)),
                                                   file_name_input'))
                                        \in StaticFiles
                                 THEN Some("A file with this name already exists")
                                 ELSE None
              ELSE UNCHANGED <<file_name_input, file_name_input_error>>]_vars

C22_Witness ==
    /\ lastCmd.op = "select"
    /\ mode = "SaveFile"
    /\ lastCmd.path = Some(<<"f">>)
    /\ selected_item = Some(<<"f">>)
    /\ file_name_input = "f"
    /\ file_name_input_error = Some("A file with this name already exists")

\* C23: refresh changes neither the history stack nor the offset; back and
\* forward never change the contents of the stack, only the offset.
C23_HistoryFrame ==
    [][/\ lastCmd'.op = "refresh" =>
              UNCHANGED <<directory_stack, directory_offset>>
       /\ lastCmd'.op \in {"back", "forward"} =>
              UNCHANGED directory_stack]_vars

C23_Witness ==
    /\ lastCmd.op = "refresh"
    /\ prevOp = "back"
    /\ directory_offset = 1
    /\ Len(directory_stack) = 2
    /\ ~io_failed

\* C24: no sequence of commands is fatal: back and forward never panic, the
\* current directory they unwrap after moving the offset is always defined,
\* also after navigations that failed.
C24_NeverPanics ==
    ~panicked

\* C25: a navigate(p) that fails with an io::Error, because p cannot be
\* made canonical or cannot be read, leaves the history as it was: the same
\* stack, the same offset, the same current directory.
C25_FailedNavigateKeepsHistory ==
    [][(lastCmd'.op \in NavigationOps
        /\ lastCmd'.res \in {"canonicalize_err", "read_dir_err"}) =>
           /\ UNCHANGED <<directory_stack, directory_offset>>
           /\ current_directory(NextSelf) = current_directory(Self)]_vars

\* C26: in SaveFile mode the state never becomes Selected(p) with p an
\* existing regular file: the dialog never returns a path whose saving
\* would overwrite a file.
C26_SaveNeverOverwrites ==
    (mode = "SaveFile" /\ state.tag = "Selected") =>
        resolve(Unwrap(state.path)) \notin StaticFiles

\* C27: a navigate(p) that succeeds and goes to a directory other than the
\* current one, followed at once by back(), makes the current directory the
\* one that was current before the navigate, whatever the offset was.
C27_NavigateThenBack ==
    [][(lastCmd'.op \in NavigationOps /\ lastCmd'.res = "ok"
        /\ current_directory(Self) # None) =>
           /\ previous_moves(NextSelf)
           /\ current_directory(load_previous_directory(NextSelf, fs'))
                  = current_directory(Self)]_vars

C27_Witness ==
    /\ lastCmd.op = "back"
    /\ lastCmd.res = "moved"
    /\ prevOp = "navigate"
    /\ Len(pre.directory_stack) = 2
    /\ pre.directory_stack[2] = <<"a">>
    /\ directory_stack = <<Root, <<"a">>>>
    /\ directory_offset = 1
    /\ current_directory(Self) = Some(Root)
    /\ ~io_failed

\* C28: the history stack never holds the same directory in two adjacent
\* positions, whatever the navigations, also for navigate(p) with p another
\* spelling (a symlink) of the current directory.
C28_NoAdjacentDuplicates ==
    \A i \in 1..(Len(directory_stack) - 1) :
        directory_stack[i] # directory_stack[i + 1]

Next ==
    \/ \E m \in Modes : Open(m)
    \/ UpdateClosed
    \/ \E p \in Places : Navigate(p)
    \/ LoadParent
    \/ \E i \in 1..(MaxCreated + 2) : ClickSegment(i)
    \/ Back
    \/ Forward
    \/ Refresh
    \/ \E i \in 1..MaxEntries : Select(i)
    \/ \E i \in 1..MaxEntries : DoubleClick(i)
    \/ \E text \in SaveNames : SetSaveName(text)
    \/ Confirm
    \/ Cancel
    \/ OpenCreateDirectory
    \/ \E text \in CreateNames : SetCreateDirectoryName(text)
    \/ CommitCreateDirectory
    \/ CancelCreateDirectory

Spec == Init /\ [][Next]_vars

====
